---- MODULE Spec2Model ----
(***************************************************************************)
(* Model of the desktop pet's bounded chat memory (src-tauri/src/memory.rs) *)
(* and of its dialogue turn (src-tauri/src/dialogue.rs).                    *)
(*                                                                          *)
(* A Rust String is a sequence of one-character strings.  The literal       *)
(* "[REMEMBER:" that opens an annotation is kept as one element, OPEN: no   *)
(* other character of the alphabets used here is '[', so the literal can    *)
(* occur in a modelled string only as that element.                         *)
(***************************************************************************)
EXTENDS Integers, Sequences, FiniteSets, TLC

VARIABLES
    memory,       \* SpecMem: the ChatMemory that add_exchange / add_fact mutate
    pairs,        \* SpecMem: every (user, assistant) pair passed to add_exchange, in order
    last_call,    \* SpecMem: the last call made and its argument
    content,      \* SpecExtract: claude_response.content, the response's blocks
    answer,       \* SpecExtract: Some(outcome of the extraction, dialogue.rs 265-283) once run
    file,         \* SpecTurn: the persisted chat_memory.json: Some(document), or None when absent
    api_key,      \* SpecTurn: whether ANTHROPIC_API_KEY is set
    pc,           \* SpecTurn: per turn slot, where generate_pet_dialogue stands
    mode,         \* SpecTurn: per slot, the turn's mode
    user_input,   \* SpecTurn: per slot, the turn's user_input
    chat_memory,  \* SpecTurn: per slot, the record loaded at the start (None if not chat)
    request,      \* SpecTurn: per slot, the messages of the ClaudeRequest sent
    returned,     \* SpecTurn: the turn that returned last: its locals and its Result
    saves,        \* SpecTurn: number of save_memory calls so far
    cleared,      \* SpecTurn: clear_chat_memory calls so far and the last one's Result
    turns,        \* SpecTurn: number of turns started so far
    fresh,        \* SpecMem: number of distinct facts passed to add_fact so far
    readds        \* SpecMem: number of add_fact calls that passed an evicted fact again

vars == <<memory, pairs, last_call, content, answer, file, api_key, pc, mode,
          user_input, chat_memory, request, returned, saves, cleared, turns,
          fresh, readds>>

memVars == <<memory, pairs, last_call, fresh, readds>>
extractVars == <<content, answer>>
turnVars == <<file, api_key, pc, mode, user_input, chat_memory, request,
              returned, saves, cleared, turns>>

\* --------------------------------------------------------------------------
\* Program constants (memory.rs)
MAX_MESSAGE_PAIRS == 20
MAX_FACTS == 50

\* Bounds of the model
MaxExchanges == 22
MaxFreshFacts == 52
MaxReadds == 1
MaxBlocks == 4
MaxTurns == 2
MaxClears == 2
MaxChatTurns == 23

\* Option<T>: None is the empty sequence, Some(x) the sequence holding x alone
None == <<>>
Some(x) == <<x>>
Unwrap(o) == o[1]

\* --------------------------------------------------------------------------
\* Characters and strings
OPEN == "[REMEMBER:"
CLOSE == "]"
NL == "\n"
SP == " "

\* char::is_whitespace, and the regex class \s
IsWhitespace(c) == c \in {SP, NL}

\* the regex class '.': any character but a line feed
IsDot(c) == c # NL

RECURSIVE trim_start(_)
trim_start(s) ==
    IF s # <<>> /\ IsWhitespace(Head(s)) THEN trim_start(Tail(s)) ELSE s

RECURSIVE trim_end(_)
trim_end(s) ==
    IF s # <<>> /\ IsWhitespace(s[Len(s)])
    THEN trim_end(SubSeq(s, 1, Len(s) - 1))
    ELSE s

\* str::trim
trim(s) == trim_end(trim_start(s))

\* str::trim_start_matches(chars): drop the longest prefix made of chars
RECURSIVE trim_start_matches(_, _)
trim_start_matches(s, chars) ==
    IF s # <<>> /\ Head(s) \in chars
    THEN trim_start_matches(Tail(s), chars)
    ELSE s

\* the decimal numeral of n (n < 100), used to tell the n-th input from the others
Digit(d) == CASE d = 0 -> "0" [] d = 1 -> "1" [] d = 2 -> "2" [] d = 3 -> "3"
              [] d = 4 -> "4" [] d = 5 -> "5" [] d = 6 -> "6" [] d = 7 -> "7"
              [] d = 8 -> "8" [] d = 9 -> "9"
Numeral(n) == IF n < 10 THEN <<Digit(n)>> ELSE <<Digit(n \div 10), Digit(n % 10)>>

\* --------------------------------------------------------------------------
\* memory.rs: the record and its two mutators

\* MemoryMessage
MemoryMessage(role, text) == [role |-> role, content |-> text]

\* ChatMemory::default()
DefaultMemory == [messages |-> <<>>, facts |-> <<>>]

\* Vec::drain(..n): the vector without its first n elements
Drain(v, n) == SubSeq(v, n + 1, Len(v))

\* faulty variant: the trim keeps the first max_messages entries (truncate for drain)
add_exchange_keep_oldest(m, user_msg, assistant_msg) ==
    LET pushed == m.messages \o <<MemoryMessage("user", user_msg),
                                  MemoryMessage("assistant", assistant_msg)>>
        max_messages == MAX_MESSAGE_PAIRS * 2
    IN  [m EXCEPT !.messages =
            IF Len(pushed) > max_messages
            THEN SubSeq(pushed, 1, max_messages)
            ELSE pushed]

\* faulty variant: the trim drains one entry more than the excess
add_exchange_drains_one_more(m, user_msg, assistant_msg) ==
    LET pushed == m.messages \o <<MemoryMessage("user", user_msg),
                                  MemoryMessage("assistant", assistant_msg)>>
        max_messages == MAX_MESSAGE_PAIRS * 2
    IN  [m EXCEPT !.messages =
            IF Len(pushed) > max_messages
            THEN Drain(pushed, Len(pushed) - max_messages + 1)
            ELSE pushed]

add_exchange(m, user_msg, assistant_msg) ==
    LET pushed == m.messages \o <<MemoryMessage("user", user_msg),
                                  MemoryMessage("assistant", assistant_msg)>>
        max_messages == MAX_MESSAGE_PAIRS * 2
    IN  [m EXCEPT !.messages =
            IF Len(pushed) > max_messages
            THEN Drain(pushed, Len(pushed) - max_messages)
            ELSE pushed]

\* faulty variant: the duplicate check looks at the newest fact only
add_fact_checks_newest(m, fact) ==
    IF m.facts # <<>> /\ m.facts[Len(m.facts)] = fact
    THEN m
    ELSE LET pushed == Append(m.facts, fact)
         IN  [m EXCEPT !.facts =
                 IF Len(pushed) > MAX_FACTS THEN Tail(pushed) ELSE pushed]

add_fact(m, fact) ==
    IF \E i \in 1..Len(m.facts) : m.facts[i] = fact
    THEN m
    ELSE LET pushed == Append(m.facts, fact)
         IN  [m EXCEPT !.facts =
                 IF Len(pushed) > MAX_FACTS THEN Tail(pushed) ELSE pushed]

Range(v) == {v[i] : i \in 1..Len(v)}

\* --------------------------------------------------------------------------
\* SpecMem: add_exchange and add_fact applied, in any order, to a record that
\* starts empty.  Neither function reads the text it is given (add_fact only
\* compares it), so the n-th exchange carries the numeral n and the k-th new
\* fact the numeral k: every message and fact is told from the others.

UserText(n) == <<"u">> \o Numeral(n)
AssistantText(n) == <<"a">> \o Numeral(n)
FactText(k) == <<"f">> \o Numeral(k)

ExtractIdle == content = <<>> /\ answer = None
TurnIdle ==
    /\ file = None /\ api_key = TRUE /\ turns = 0 /\ saves = 0
    /\ cleared = [count |-> 0, ok |-> TRUE]
    /\ pc = <<>> /\ mode = <<>> /\ user_input = <<>> /\ chat_memory = <<>>
    /\ request = <<>>
    /\ returned = None
MemIdle ==
    /\ memory = DefaultMemory /\ pairs = <<>> /\ last_call = [op |-> "none", fact |-> <<>>]
    /\ fresh = 0 /\ readds = 0

InitMem == MemIdle /\ ExtractIdle /\ TurnIdle

AddExchange ==
    /\ Len(pairs) < MaxExchanges
    /\ LET n == Len(pairs) + 1
       IN  /\ memory' = add_exchange(memory, UserText(n), AssistantText(n))
           /\ pairs' = Append(pairs, [user |-> UserText(n), assistant |-> AssistantText(n)])
           /\ last_call' = [op |-> "add_exchange", fact |-> <<>>]
    /\ UNCHANGED <<fresh, readds, extractVars, turnVars>>

\* a fact never passed before
AddFreshFact ==
    /\ fresh < MaxFreshFacts
    /\ memory' = add_fact(memory, FactText(fresh + 1))
    /\ last_call' = [op |-> "add_fact", fact |-> FactText(fresh + 1)]
    /\ fresh' = fresh + 1
    /\ UNCHANGED <<pairs, readds, extractVars, turnVars>>

\* a fact passed before and still in the record: the oldest, the middle one or the newest
AddPresentFact ==
    /\ memory.facts # <<>>
    /\ \E i \in {1, (Len(memory.facts) + 1) \div 2, Len(memory.facts)} :
        LET fact == memory.facts[i] IN
          /\ memory' = add_fact(memory, fact)
          /\ last_call' = [op |-> "add_fact", fact |-> fact]
    /\ UNCHANGED <<pairs, fresh, readds, extractVars, turnVars>>

\* a fact passed before and evicted since
AddEvictedFact ==
    /\ readds < MaxReadds
    /\ \E k \in 1..fresh :
          /\ FactText(k) \notin Range(memory.facts)
          /\ memory' = add_fact(memory, FactText(k))
          /\ last_call' = [op |-> "add_fact", fact |-> FactText(k)]
    /\ readds' = readds + 1
    /\ UNCHANGED <<pairs, fresh, extractVars, turnVars>>

NextMem == AddExchange \/ AddFreshFact \/ AddPresentFact \/ AddEvictedFact

SpecMem == InitMem /\ [][NextMem]_vars

\* C1: starting from an empty record, after any sequence of add_exchange calls
\* messages.length is even and at most 2 x MAX_MESSAGE_PAIRS, and the record
\* holds exactly the most recent min(n, MAX_MESSAGE_PAIRS) pairs passed, in
\* the order they were passed (the oldest pairs are the ones dropped).
C1_RecentPairs ==
    LET n == Len(pairs)
        kept == IF n < MAX_MESSAGE_PAIRS THEN n ELSE MAX_MESSAGE_PAIRS
        msgs == memory.messages
    IN  /\ Len(msgs) % 2 = 0
        /\ Len(msgs) <= 2 * MAX_MESSAGE_PAIRS
        /\ Len(msgs) = 2 * kept
        /\ \A j \in 1..kept :
              /\ msgs[2 * j - 1] = [role |-> "user", content |-> pairs[n - kept + j].user]
              /\ msgs[2 * j] = [role |-> "assistant", content |-> pairs[n - kept + j].assistant]

\* more pairs were added than the cap holds, so the oldest were dropped
C1_Witness ==
    /\ Len(pairs) > MAX_MESSAGE_PAIRS + 1
    /\ Len(memory.messages) = 2 * MAX_MESSAGE_PAIRS
    /\ memory.messages[1].content = UserText(Len(pairs) - MAX_MESSAGE_PAIRS + 1)

NoDuplicates(v) == \A i, j \in 1..Len(v) : v[i] = v[j] => i = j

\* C2: starting from an empty record, after any sequence of add_fact calls
\* facts holds no string twice and at most MAX_FACTS strings; a call with a
\* string already present leaves the record unchanged; a call that pushes the
\* length past MAX_FACTS removes exactly one entry, the oldest.
C2_FactsBounded ==
    /\ [](NoDuplicates(memory.facts) /\ Len(memory.facts) <= MAX_FACTS)
    /\ [][last_call'.op = "add_fact" =>
            LET f == last_call'.fact
            IN  IF f \in Range(memory.facts)
                THEN memory' = memory
                ELSE /\ memory'.messages = memory.messages
                     /\ memory'.facts =
                           IF Len(memory.facts) = MAX_FACTS
                           THEN Tail(memory.facts) \o <<f>>
                           ELSE memory.facts \o <<f>>]_vars

\* the cap was passed, the oldest fact is gone, and a call with a present fact followed
C2_Witness ==
    /\ fresh > MAX_FACTS
    /\ Len(memory.facts) = MAX_FACTS
    /\ FactText(1) \notin Range(memory.facts)
    /\ last_call.op = "add_fact"
    /\ last_call.fact \in Range(memory.facts)
    /\ last_call.fact # memory.facts[MAX_FACTS]

\* --------------------------------------------------------------------------
\* memory.rs: the persisted document.  serde_json writes every String as a
\* JSON string, escaping '"', '\' and the line feed; reading undoes it.

QUOTE == "\""
BACKSLASH == "\\"

\* faulty variant: the backslash is written as it is
escape_char_plain_backslash(c) ==
    IF c = QUOTE THEN <<BACKSLASH, QUOTE>>
    ELSE IF c = NL THEN <<BACKSLASH, "n">>
    ELSE <<c>>

escape_char(c) ==
    IF c = QUOTE THEN <<BACKSLASH, QUOTE>>
    ELSE IF c = BACKSLASH THEN <<BACKSLASH, BACKSLASH>>
    ELSE IF c = NL THEN <<BACKSLASH, "n">>
    ELSE <<c>>

\* the body of the JSON string that holds s
RECURSIVE json_escape(_)
json_escape(s) ==
    IF s = <<>> THEN <<>> ELSE escape_char(Head(s)) \o json_escape(Tail(s))

\* the String a JSON string body stands for: Some(text), or None when an
\* escape is not one JSON knows or the body ends inside one
RECURSIVE json_unescape(_)
json_unescape(j) ==
    IF j = <<>> THEN Some(<<>>)
    ELSE IF Head(j) = QUOTE \/ Head(j) = NL THEN None
    ELSE IF Head(j) # BACKSLASH
         THEN LET rest == json_unescape(Tail(j))
              IN  IF rest = None THEN None ELSE Some(<<Head(j)>> \o Unwrap(rest))
    ELSE IF Len(j) < 2 THEN None
    ELSE LET e == j[2]
             c == IF e = "n" THEN Some(NL)
                  ELSE IF e = QUOTE \/ e = BACKSLASH THEN Some(e)
                  ELSE None
             rest == json_unescape(SubSeq(j, 3, Len(j)))
         IN  IF c = None \/ rest = None THEN None
             ELSE Some(<<Unwrap(c)>> \o Unwrap(rest))

\* serde_json::to_string_pretty(memory): the document's two arrays
to_string_pretty(m) ==
    [messages |-> [i \in 1..Len(m.messages) |->
                      [role |-> m.messages[i].role,
                       content |-> json_escape(m.messages[i].content)]],
     facts |-> [i \in 1..Len(m.facts) |-> json_escape(m.facts[i])]]

\* serde_json::from_str::<ChatMemory>(data): Some(record), None on a parse error
from_str(data) ==
    IF \/ \E i \in 1..Len(data.messages) : json_unescape(data.messages[i].content) = None
       \/ \E i \in 1..Len(data.facts) : json_unescape(data.facts[i]) = None
    THEN None
    ELSE Some([messages |-> [i \in 1..Len(data.messages) |->
                                [role |-> data.messages[i].role,
                                 content |-> Unwrap(json_unescape(data.messages[i].content))]],
               facts |-> [i \in 1..Len(data.facts) |-> Unwrap(json_unescape(data.facts[i]))]])

\* The file system is taken as a reliable collaborator: memory_path resolves,
\* fs::read_to_string fails exactly when the file is absent, and fs::write
\* and fs::remove_file succeed.

\* Option::unwrap_or_default for ChatMemory
unwrap_or_default(o) == IF o = None THEN DefaultMemory ELSE Unwrap(o)

\* load_memory: f is the document (None when the file is absent, which is
\* when fs::read_to_string fails)
load_memory(f) ==
    IF f = None THEN DefaultMemory ELSE unwrap_or_default(from_str(Unwrap(f)))

\* save_memory: the document after fs::write(path, json)
save_memory(m) == Some(to_string_pretty(m))

\* faulty variant: the existence test is inverted
clear_chat_memory_inverted(f) == IF f = None THEN None ELSE f

\* clear_chat_memory: the document after it; the file is removed if it exists
clear_chat_memory(f) == IF f # None THEN None ELSE f

\* --------------------------------------------------------------------------
\* dialogue.rs 149-159: extract_remember_tags, with the regex
\* \[REMEMBER:\s*(.+?)\] matched leftmost-first as the regex crate does

\* number of whitespace characters of s from index i on, before the first other one
RECURSIVE ws_run(_, _)
ws_run(s, i) ==
    IF i <= Len(s) /\ IsWhitespace(s[i]) THEN 1 + ws_run(s, i + 1) ELSE 0

\* (.+?)\] with s[c..j-1] already taken by the lazy group: the index of the
\* closing bracket, 0 when the group cannot be closed
RECURSIVE lazy_close(_, _)
lazy_close(s, j) ==
    IF j > Len(s) THEN 0
    ELSE IF s[j] = CLOSE THEN j
    ELSE IF IsDot(s[j]) THEN lazy_close(s, j + 1)
    ELSE 0

\* the match that starts at the opening literal s[i], \s* taking k characters
\* or, failing that, fewer: Some([cap, end]) or None
RECURSIVE match_ws(_, _, _)
match_ws(s, i, k) ==
    IF k < 0 THEN None
    ELSE LET c == i + 1 + k
             j == IF c <= Len(s) /\ IsDot(s[c]) THEN lazy_close(s, c + 1) ELSE 0
         IN  IF j > 0 THEN Some([cap |-> c, end |-> j]) ELSE match_ws(s, i, k - 1)

match_at(s, i) ==
    IF s[i] = OPEN THEN match_ws(s, i, ws_run(s, i + 1)) ELSE None

\* captures_iter / replace_all from index pos on: the text with every match
\* cut out, and the trimmed captures
RECURSIVE scan_tags(_, _)
scan_tags(s, pos) ==
    IF pos > Len(s) THEN [cleaned |-> <<>>, facts |-> <<>>]
    ELSE LET m == match_at(s, pos)
         IN  IF m = None
             THEN LET rest == scan_tags(s, pos + 1)
                  IN  [cleaned |-> <<s[pos]>> \o rest.cleaned, facts |-> rest.facts]
             ELSE LET rest == scan_tags(s, Unwrap(m).end + 1)
                      cap == SubSeq(s, Unwrap(m).cap, Unwrap(m).end - 1)
                  IN  [cleaned |-> rest.cleaned, facts |-> <<trim(cap)>> \o rest.facts]

\* faulty variant: the captures are collected and the text is only trimmed
extract_remember_tags_keeps_text(text) ==
    LET r == scan_tags(text, 1)
    IN  [cleaned |-> trim(text), facts |-> r.facts]

extract_remember_tags(text) ==
    LET r == scan_tags(text, 1)
    IN  [cleaned |-> trim(r.cleaned), facts |-> r.facts]

\* --------------------------------------------------------------------------
\* dialogue.rs 263-283: the answer of a parsed response

\* ContentBlock: block_type and text are Options
ContentBlock(block_type, text) == [block_type |-> block_type, text |-> text]

\* faulty variant: position for rposition, the first search result among v[1..i]
position_search(v, i) ==
    IF \E j \in 1..i : v[j].block_type = Some("web_search_tool_result")
    THEN CHOOSE j \in 1..i :
            /\ v[j].block_type = Some("web_search_tool_result")
            /\ \A k \in 1..(j - 1) : v[k].block_type # Some("web_search_tool_result")
    ELSE 0

\* Iterator::rposition over the blocks v[1..i]: the last index whose block is a
\* web search result, 0 for Option::None (indices here start at 1)
RECURSIVE rposition_search(_, _)
rposition_search(v, i) ==
    IF i = 0 THEN 0
    ELSE IF v[i].block_type = Some("web_search_tool_result") THEN i
    ELSE rposition_search(v, i - 1)

\* faulty variant: the last text block alone, no concatenation
RECURSIVE collect_last_text(_, _)
collect_last_text(v, i) ==
    IF i > Len(v) THEN <<>>
    ELSE LET rest == collect_last_text(v, i + 1)
         IN  IF rest # <<>> THEN rest
             ELSE IF v[i].block_type = Some("text") /\ v[i].text # None
                  THEN Unwrap(v[i].text)
                  ELSE <<>>

\* skip(start).filter(type is text).filter_map(text).collect::<String>() from block i on
RECURSIVE collect_text(_, _)
collect_text(v, i) ==
    IF i > Len(v) THEN <<>>
    ELSE IF v[i].block_type = Some("text") /\ v[i].text # None
         THEN Unwrap(v[i].text) \o collect_text(v, i + 1)
         ELSE collect_text(v, i + 1)

\* lines 265-278: the concatenation, before trimming
raw_answer(v) ==
    LET last_search_idx == rposition_search(v, Len(v))
        start == last_search_idx
    IN  collect_text(v, start + 1)

LeadingPunctuation == {".", ",", ";", ":"}

\* line 280: answer.trim().trim_start_matches(['.', ',', ';', ':']).trim()
clean_answer(s) == trim(trim_start_matches(trim(s), LeadingPunctuation))

\* --------------------------------------------------------------------------
\* SpecExtract: the extraction applied to every list of at most MaxBlocks
\* blocks drawn from Blocks.

Str_cite == <<"c", "i", "t", "e">>
Str_The == <<"T", "h", "e", " ">>
Str_answer == <<"a", "n", "s", "w", "e", "r", ".">>
Str_text == <<"t", "e", "x", "t">>
BlockTexts == {Str_cite, Str_The, Str_answer, Str_text, <<".", " ">>, <<",", " ">>}

Blocks ==
    {ContentBlock(Some("text"), Some(t)) : t \in BlockTexts}
        \cup {ContentBlock(Some("text"), None),
              ContentBlock(Some("web_search_tool_result"), None),
              ContentBlock(None, Some(Str_cite))}

RECURSIVE SeqsUpTo(_, _)
SeqsUpTo(S, n) ==
    IF n = 0 THEN {<<>>}
    ELSE LET shorter == SeqsUpTo(S, n - 1)
         IN  shorter \cup {Append(q, x) : q \in shorter, x \in S}

InitExtract ==
    /\ content \in SeqsUpTo(Blocks, MaxBlocks)
    /\ answer = None
    /\ MemIdle /\ TurnIdle

Extract ==
    /\ answer = None
    /\ LET raw == raw_answer(content)
           final == clean_answer(raw)
       IN  answer' = Some([raw |-> raw, final |-> final, is_empty |-> (final = <<>>)])
    /\ UNCHANGED <<content, memVars, turnVars>>

NextExtract == Extract

SpecExtract == InitExtract /\ [][NextExtract]_vars

\* indices of the text-typed blocks that carry a text and come after every search result
AnswerBlocks(v) ==
    {i \in 1..Len(v) :
        /\ v[i].block_type = Some("text") /\ v[i].text # None
        /\ \A j \in i..Len(v) : v[j].block_type # Some("web_search_tool_result")}

RECURSIVE TotalLen(_, _)
TotalLen(v, I) ==
    IF I = {} THEN 0
    ELSE LET i == CHOOSE x \in I : TRUE
         IN  Len(Unwrap(v[i].text)) + TotalLen(v, I \ {i})

\* C7: for every sequence of blocks, the answer before trimming is the
\* concatenation, in order, of the texts of the text-typed blocks after the
\* last search-result block (of all of them when there is none): each such
\* block's text lies in the answer right after the texts of the earlier such
\* blocks, and nothing else is in the answer.
C7_AnswerAfterLastSearch ==
    answer # None =>
        LET I == AnswerBlocks(content)
            raw == Unwrap(answer).raw
        IN  /\ Len(raw) = TotalLen(content, I)
            /\ \A i \in I :
                  LET off == TotalLen(content, {j \in I : j < i})
                      text == Unwrap(content[i].text)
                  IN  SubSeq(raw, off + 1, off + Len(text)) = text

\* text blocks stand before and after the last search result
C7_Witness ==
    /\ answer # None
    /\ Len(content) = 4
    /\ content[1] = ContentBlock(Some("text"), Some(Str_cite))
    /\ content[2] = ContentBlock(Some("text"), Some(Str_The))
    /\ content[3].block_type = Some("web_search_tool_result")
    /\ content[4] = ContentBlock(Some("text"), Some(Str_answer))
    /\ Unwrap(answer).raw = Str_answer

Example8 ==
    <<ContentBlock(Some("text"), Some(Str_cite)),
      ContentBlock(Some("web_search_tool_result"), None),
      ContentBlock(Some("text"), Some(Str_The)),
      ContentBlock(Some("text"), Some(Str_answer))>>

\* C8 as stated: the blocks [text:"cite"], [search_result], [text:"The "],
\* [text:"answer."] yield the answer "answer."
C8_Original ==
    (content = Example8 /\ answer # None) => Unwrap(answer).final = Str_answer

\* C8 amended: those blocks yield the answer "The answer." (both text blocks
\* after the search result are concatenated; "cite" before it is discarded)
C8_TheAnswer ==
    (content = Example8 /\ answer # None) =>
        (Unwrap(answer).final = Str_The \o Str_answer /\ ~Unwrap(answer).is_empty)

C8_Witness == content = Example8 /\ answer # None

\* the part of C10 that line 280 does give: no whitespace at either end
C10_NoSurroundingWhitespace ==
    (answer # None /\ Unwrap(answer).final # <<>>) =>
        LET final == Unwrap(answer).final
        IN  ~IsWhitespace(Head(final)) /\ ~IsWhitespace(final[Len(final)])

\* C10 as stated: the final answer never begins with one of '.', ',', ';', ':'
\* and never begins or ends with whitespace
C10_Original ==
    (answer # None /\ Unwrap(answer).final # <<>>) =>
        LET final == Unwrap(answer).final
        IN  /\ Head(final) \notin LeadingPunctuation
            /\ ~IsWhitespace(Head(final))
            /\ ~IsWhitespace(final[Len(final)])

\* --------------------------------------------------------------------------
\* SpecTurn: generate_pet_dialogue (dialogue.rs 161-298) run in two slots, so
\* that two turns may overlap, with clear_chat_memory.  A turn reads the file
\* before its request (line 180) and writes it after the response (line 293);
\* the request's await lies between, so a turn is two steps: Begin and Complete.

Turns == {1, 2}

Modes == {"spontaneous", "chat", "judge", "search", "journal", "achievement"}

\* the command's arguments: mode and user_input are Options
Str_tricky == <<QUOTE, BACKSLASH, "n", NL>>
TurnInputs ==
    {[mode |-> None, user_input |-> None]}
        \cup {[mode |-> Some(m), user_input |-> None] : m \in Modes}
        \cup {[mode |-> Some(m), user_input |-> Some(Str_tricky)] : m \in {"chat", "search"}}

\* what the request can end in: a transport failure (line 243), an unreadable
\* body (249), a non-success status (251-258), a body that is not a
\* ClaudeResponse (261), or a parsed response with these blocks
Text(t) == ContentBlock(Some("text"), Some(t))
Contents ==
    { <<Text(<<".", SP>>)>>,
      <<Text(<<"o", "k">>)>>,
      <<Text(<<".", SP>>), Text(<<"h", "i", SP, OPEN, SP, "f", CLOSE, NL>>)>>,
      <<Text(<<OPEN, "f", CLOSE>>)>>,
      <<Text(<<OPEN, "a", OPEN, NL, "x", CLOSE, CLOSE>>)>> }
Outcomes ==
    {[kind |-> k, content |-> <<>>] :
        k \in {"transport_error", "body_error", "status_error", "parse_error"}}
        \cup {[kind |-> "response", content |-> c] : c \in Contents}

Ok(text) == [ok |-> TRUE, text |-> text, err |-> ""]
Err(e) == [ok |-> FALSE, text |-> <<>>, err |-> e]

\* a turn that has returned: its number, its locals and its Result
Returned(n, m, u, cm, answ, saved, res) ==
    Some([seq |-> n, mode |-> m, user_input |-> u, chat_memory |-> cm,
          answer |-> answ, mem |-> saved, result |-> res])

\* the command's trigger argument, the same string in every turn, and the
\* date that build_user_message reads from the clock in search mode
Str_trigger == <<"t">>
TODAY == "{today}"

\* build_user_message (lines 132-147); the literal parts of each format
\* string are kept as one element each
build_user_message(the_mode, trigger, the_input) ==
    IF the_mode = "chat" THEN <<"Your owner says: ", QUOTE>> \o the_input \o <<QUOTE>>
    ELSE IF the_mode = "judge" THEN <<"Judge what I'm doing right now. Trigger: ">> \o trigger
    ELSE IF the_mode = "search"
         THEN <<"Today is ", TODAY, ". I searched for: ">> \o the_input
    ELSE IF the_mode = "journal"
         THEN <<"Write a diary entry about today. Here are the events: ">> \o trigger
    ELSE IF the_mode = "achievement"
         THEN <<"React to unlocking this achievement: ">> \o trigger
    ELSE <<"Say something as a cat desktop pet. Trigger: ">> \o trigger

\* Message (lines 15-19)
Message(role, text) == [role |-> role, content |-> text]

\* lines 211-224: the messages array, the loaded history in chat mode and
\* then the new user message
request_messages(cm, user_message) ==
    (IF cm = None THEN <<>>
     ELSE [i \in 1..Len(Unwrap(cm).messages) |->
              Message(Unwrap(cm).messages[i].role, Unwrap(cm).messages[i].content)])
        \o <<Message("user", user_message)>>

InitTurn ==
    /\ file = None
    /\ api_key \in BOOLEAN
    /\ pc = [t \in Turns |-> "idle"]
    /\ mode = [t \in Turns |-> "spontaneous"]
    /\ user_input = [t \in Turns |-> <<>>]
    /\ chat_memory = [t \in Turns |-> None]
    /\ request = [t \in Turns |-> <<>>]
    /\ returned = None
    /\ cleared = [count |-> 0, ok |-> TRUE]
    /\ saves = 0
    /\ turns = 0
    /\ MemIdle /\ ExtractIdle

\* lines 170-243: the credential, the defaults, the load in chat mode, the
\* messages array; the request is sent and the turn waits for it.  Without
\* the credential the command returns at line 171.
BeginTurn(t, in) ==
    /\ pc[t] = "idle"
    /\ turns' = turns + 1
    /\  LET the_mode == IF in.mode = None THEN "spontaneous" ELSE Unwrap(in.mode)
            the_input == IF in.user_input = None THEN <<>> ELSE Unwrap(in.user_input)
            is_chat == the_mode = "chat"
            loaded == IF is_chat THEN Some(load_memory(file)) ELSE None
            user_message == build_user_message(the_mode, Str_trigger, the_input)
        IN  IF ~api_key
            THEN /\ returned' = Returned((IF returned = None THEN 0 ELSE Unwrap(returned).seq) + 1, "spontaneous", <<>>, None, None, None,
                                         Err("ANTHROPIC_API_KEY not set"))
                 /\ UNCHANGED <<pc, mode, user_input, chat_memory, request>>
            ELSE /\ mode' = [mode EXCEPT ![t] = the_mode]
                 /\ user_input' = [user_input EXCEPT ![t] = the_input]
                 /\ chat_memory' = [chat_memory EXCEPT ![t] = loaded]
                 /\ request' = [request EXCEPT ![t] = request_messages(loaded, user_message)]
                 /\ pc' = [pc EXCEPT ![t] = "awaiting"]
                 /\ UNCHANGED returned
    /\ UNCHANGED <<file, api_key, cleared, saves, memVars, extractVars>>

\* a turn begins in slot t with any of the inputs
Begin(t) == turns < MaxTurns /\ \E in \in TurnInputs : BeginTurn(t, in)

\* faulty variant: the turn reads the file again when the response has arrived
turn_memory_reloaded(t) == load_memory(file)

\* line 288: the record the turn updates
turn_memory(t) == unwrap_or_default(chat_memory[t])

\* lines 289-291: add_fact for each extracted fact, in order
RECURSIVE add_facts(_, _)
add_facts(m, new_facts) ==
    IF new_facts = <<>> THEN m
    ELSE add_facts(add_fact(m, Head(new_facts)), Tail(new_facts))

\* faulty variant: the record is handed on before the exchange is added
updated_memory_facts_only(m, input, tags) == add_facts(m, tags.facts)

\* lines 287-292: the record after the turn's facts and exchange
updated_memory(m, input, tags) ==
    add_exchange(add_facts(m, tags.facts), input, tags.cleaned)

\* lines 285-297: what a turn with a non-empty answer saves and returns
finish(t, the_answer) ==
    IF mode[t] = "chat"
    THEN LET tags == extract_remember_tags(the_answer)
         IN  [save |-> Some(updated_memory(turn_memory(t), user_input[t], tags)),
              result |-> Ok(tags.cleaned)]
    ELSE [save |-> None, result |-> Ok(the_answer)]

\* lines 243-283: the errors a response can end the turn with, None if none
response_error(o, the_answer) ==
    IF o.kind = "transport_error" THEN Some(Err("Request failed"))
    ELSE IF o.kind = "body_error" THEN Some(Err("Failed to read response"))
    ELSE IF o.kind = "status_error" THEN Some(Err("API error"))
    ELSE IF o.kind = "parse_error" THEN Some(Err("Failed to parse response"))
    ELSE IF the_answer = <<>> THEN Some(Err("Empty response from Claude"))
    ELSE None

\* lines 243-298: the response arrives and the turn ends
CompleteTurn(t, o) ==
    /\ pc[t] = "awaiting"
    /\  LET the_answer == clean_answer(raw_answer(o.content))
            error == response_error(o, the_answer)
            end == IF error # None THEN [save |-> None, result |-> Unwrap(error)]
                   ELSE finish(t, the_answer)
        IN  /\ file' = IF end.save = None THEN file ELSE save_memory(Unwrap(end.save))
            /\ saves' = IF end.save = None THEN saves ELSE saves + 1
            /\ returned' = Returned((IF returned = None THEN 0 ELSE Unwrap(returned).seq) + 1, mode[t], user_input[t], chat_memory[t],
                                    IF o.kind = "response" THEN Some(the_answer) ELSE None,
                                    end.save, end.result)
    /\ pc' = [pc EXCEPT ![t] = "idle"]
    /\ mode' = [mode EXCEPT ![t] = "spontaneous"]
    /\ user_input' = [user_input EXCEPT ![t] = <<>>]
    /\ chat_memory' = [chat_memory EXCEPT ![t] = None]
    /\ request' = [request EXCEPT ![t] = <<>>]
    /\ UNCHANGED <<api_key, cleared, turns, memVars, extractVars>>

\* the turn in slot t ends in any of the outcomes
Complete(t) == \E o \in Outcomes : CompleteTurn(t, o)

\* the clear_chat_memory command (memory.rs 80-87)
Clear ==
    /\ cleared.count < MaxClears
    /\ file' = clear_chat_memory(file)
    /\ cleared' = [count |-> cleared.count + 1, ok |-> TRUE]
    /\ UNCHANGED <<api_key, pc, mode, user_input, chat_memory, request, returned,
                   saves, turns, memVars, extractVars>>

NextTurn == (\E t \in Turns : Begin(t)) \/ (\E t \in Turns : Complete(t)) \/ Clear

SpecTurn == InitTurn /\ [][NextTurn]_vars

\* the turn that returned last
Last == Unwrap(returned)

\* a turn returned in this step
TurnReturns == returned' # returned

\* the facts of annotations in text, in order of appearance (code's own scan)
TurnFacts(text) == extract_remember_tags(text).facts

\* C3: a turn leaves the persisted record as it was, or writes the record it
\* loaded with both its extracted facts and its exchange applied; a turn that
\* ends in an error leaves the persisted record as it was; no step persists
\* the facts without the exchange or the exchange without the facts.
C3_AllOrNothing ==
    [][/\ (~TurnReturns /\ cleared' = cleared) => file' = file
       /\ TurnReturns =>
            LET r == Unwrap(returned')
            IN  /\ ~r.result.ok => file' = file
                /\ file' # file =>
                      /\ r.result.ok /\ r.mode = "chat" /\ r.chat_memory # None
                      /\ LET before == Unwrap(r.chat_memory)
                             with_facts == add_facts(before, TurnFacts(Unwrap(r.answer)))
                             with_both == add_exchange(with_facts, r.user_input, r.result.text)
                         IN  /\ load_memory(file') = with_both
                             /\ load_memory(file') # with_facts
                             /\ load_memory(file') #
                                   add_exchange(before, r.user_input, r.result.text)
                                 \/ TurnFacts(Unwrap(r.answer)) = <<>>
                                 \/ Range(TurnFacts(Unwrap(r.answer))) \subseteq Range(before.facts)]_vars

\* a chat turn ended in an error while the file held the facts and the
\* exchange of an earlier turn, and the file still holds them
C3_Witness ==
    /\ returned # None
    /\ Last.seq >= 2 /\ Last.mode = "chat" /\ ~Last.result.ok
    /\ Last.chat_memory = Some(load_memory(file))
    /\ Len(load_memory(file).facts) = 1
    /\ Len(load_memory(file).messages) = 2

\* C4: turns take no lock on the file.  After a turn has saved, the file is
\* the record that turn loaded plus its own exchange and facts, whatever other
\* turns saved between its load and its save: their updates are gone.
C4_LastSaveWins ==
    (returned # None /\ Last.mem # None /\ cleared.count = 0) =>
        LET before == Unwrap(Last.chat_memory)
            now == load_memory(file)
            own == <<MemoryMessage("user", Last.user_input),
                     MemoryMessage("assistant", Last.result.text)>>
            all == before.messages \o own
        IN  /\ now.messages = Drain(all, IF Len(all) > 2 * MAX_MESSAGE_PAIRS
                                         THEN Len(all) - 2 * MAX_MESSAGE_PAIRS ELSE 0)
            /\ Range(now.facts) \subseteq
                  Range(before.facts) \cup Range(TurnFacts(Unwrap(Last.answer)))

\* two turns loaded the empty record, both saved, and the file holds one exchange
C4_Witness ==
    /\ returned # None /\ Last.mem # None
    /\ cleared.count = 0 /\ saves = 2
    /\ Last.chat_memory = Some(DefaultMemory)
    /\ Len(load_memory(file).messages) = 2

\* C5: after clear_chat_memory, load_memory yields the empty record whatever
\* was persisted before; called with the document already absent it returns
\* Ok and changes nothing.
C5_ClearThenEmpty ==
    [][cleared'.count = cleared.count + 1 =>
          /\ cleared'.ok
          /\ load_memory(file') = [messages |-> <<>>, facts |-> <<>>]
          /\ file = None => file' = file]_vars

\* one clear removed a saved document and another found none
C5_Witness == cleared.count = 2 /\ saves = 1 /\ file = None

\* C6: load_memory on a missing file returns the empty record (a chat turn
\* that begins with no file loads it), and load_memory after save_memory
\* returns the record saved, messages and facts equal and in the same order.
C6_RoundTrip ==
    [][/\ \A t \in Turns :
            (pc[t] = "idle" /\ pc'[t] = "awaiting" /\ mode'[t] = "chat" /\ file = None)
                => chat_memory'[t] = Some([messages |-> <<>>, facts |-> <<>>])
       /\ saves' = saves + 1 =>
            /\ Unwrap(returned').mem # None
            /\ load_memory(file') = Unwrap(Unwrap(returned').mem)]_vars

\* the file holds a message with a quote, a backslash and a line feed, and a fact
C6_Witness ==
    /\ saves >= 1 /\ file # None
    /\ \E i \in 1..Len(load_memory(file).messages) :
          load_memory(file).messages[i].content = Str_tricky
    /\ load_memory(file).facts # <<>>

\* text holds a [REMEMBER: ...] annotation: the opening literal, whitespace,
\* one or more characters other than a line feed, and a closing bracket
HasAnnotation(text) ==
    \E i \in 1..Len(text), c \in 1..Len(text), j \in 1..Len(text) :
        /\ text[i] = OPEN
        /\ i < c /\ c < j
        /\ \A p \in (i + 1)..(c - 1) : IsWhitespace(text[p])
        /\ \A p \in c..(j - 1) : IsDot(text[p])
        /\ text[j] = CLOSE

\* C9 as stated: in every mode a successful turn returns text that holds no
\* [REMEMBER: ...] annotation
C9_Original ==
    (returned # None /\ Last.result.ok) => ~HasAnnotation(Last.result.text)

\* C9 amended: only a chat turn strips annotations.  A successful chat turn
\* returns its answer unchanged when the answer holds no annotation and a
\* shorter text when it holds one, and persists a record with the facts; a
\* successful turn in any other mode returns its answer as it is, annotations
\* included, and saves nothing.
C9_ChatOnly ==
    (returned # None /\ Last.result.ok) =>
        LET ans == Unwrap(Last.answer)
        IN  IF Last.mode = "chat"
            THEN /\ Last.mem # None
                 /\ HasAnnotation(ans) =>
                       /\ Len(Last.result.text) < Len(ans)
                       /\ Unwrap(Last.mem).facts # <<>>
                 /\ ~HasAnnotation(ans) =>
                       /\ Last.result.text = ans
                       /\ Unwrap(Last.mem).facts = Unwrap(Last.chat_memory).facts
            ELSE Last.result.text = ans /\ Last.mem = None

\* a chat turn's answer held an annotation; the text returned holds none and
\* the fact is in the file
C9_Witness ==
    /\ returned # None /\ Last.result.ok /\ Last.mode = "chat"
    /\ HasAnnotation(Unwrap(Last.answer))
    /\ ~HasAnnotation(Last.result.text)
    /\ Last.result.text = <<"h", "i">>
    /\ <<"f">> \in Range(load_memory(file).facts)

\* the assistant message of the exchange a turn recorded, None if it saved nothing
RecordedReply(r) ==
    IF r.mem = None \/ Unwrap(r.mem).messages = <<>> THEN None
    ELSE Some(Unwrap(r.mem).messages[Len(Unwrap(r.mem).messages)])

\* C11 as stated: a turn that returns success returns a non-empty display
\* string, in every mode, and the exchange it records, if any, has non-empty
\* assistant content
C11_Original ==
    (returned # None /\ Last.result.ok) =>
        /\ Last.result.text # <<>>
        /\ RecordedReply(Last) # None => Unwrap(RecordedReply(Last)).content # <<>>

\* the part of C11 the code keeps: outside chat mode a successful turn
\* returns a non-empty string
C11_NonChatNonEmpty ==
    (returned # None /\ Last.result.ok /\ Last.mode # "chat") => Last.result.text # <<>>

\* --------------------------------------------------------------------------
\* SpecChat: chat turns and clears one after the other, from an absent or
\* empty document.  Each turn runs generate_pet_dialogue in slot 1 from its
\* first line to its return before the next command starts; its request
\* succeeds or fails.  The k-th exchange saved carries the numeral k.

ChatInput(n) == [mode |-> Some("chat"), user_input |-> Some(UserText(n))]

ChatOutcomes(n) ==
    {[kind |-> "status_error", content |-> <<>>],
     [kind |-> "response", content |-> <<Text(AssistantText(n))>>]}

InitChat ==
    /\ file \in {None, save_memory(DefaultMemory)}
    /\ api_key = TRUE
    /\ pc = [t \in Turns |-> "idle"]
    /\ mode = [t \in Turns |-> "spontaneous"]
    /\ user_input = [t \in Turns |-> <<>>]
    /\ chat_memory = [t \in Turns |-> None]
    /\ request = [t \in Turns |-> <<>>]
    /\ returned = None
    /\ cleared = [count |-> 0, ok |-> TRUE]
    /\ saves = 0
    /\ turns = 0
    /\ MemIdle /\ ExtractIdle

ChatBegin == turns < MaxChatTurns /\ BeginTurn(1, ChatInput(saves + 1))

ChatComplete == \E o \in ChatOutcomes(saves + 1) : CompleteTurn(1, o)

ChatClear == pc[1] = "idle" /\ Clear

NextChat == ChatBegin \/ ChatComplete \/ ChatClear

SpecChat == InitChat /\ [][NextChat]_vars

\* roles user, assistant, user, assistant, ... beginning with user
Alternates(msgs) ==
    \A i \in 1..Len(msgs) : msgs[i].role = IF i % 2 = 1 THEN "user" ELSE "assistant"

\* C12: from an absent or empty document, after any sequence of sequential
\* chat turns and clears the persisted messages are whole pairs whose roles
\* alternate user, assistant beginning with user, and the message list of a
\* chat request begins with a user message, alternates roles, and is the
\* stored history in stored order followed by the new user message.
C12_RolesAlternate ==
    LET stored == load_memory(file).messages
    IN  /\ Alternates(stored)
        /\ Len(stored) % 2 = 0
        /\ pc[1] = "awaiting" =>
              /\ request[1][1].role = "user"
              /\ Alternates(request[1])
              /\ request[1][Len(request[1])] =
                    [role |-> "user",
                     content |-> <<"Your owner says: ", QUOTE>> \o user_input[1] \o <<QUOTE>>]
              /\ SubSeq(request[1], 1, Len(request[1]) - 1) = stored

\* a request goes out with a full history whose oldest pair was evicted, some
\* time after a clear
C12_Witness ==
    /\ pc[1] = "awaiting"
    /\ saves > MAX_MESSAGE_PAIRS
    /\ cleared.count >= 1
    /\ Len(request[1]) = 2 * MAX_MESSAGE_PAIRS + 1
    /\ request[1][1] = [role |-> "user", content |-> UserText(saves - MAX_MESSAGE_PAIRS + 1)]
    /\ request[1][2 * MAX_MESSAGE_PAIRS].role = "assistant"

====
